---------------------------- MODULE Spec2Model ----------------------------
(***************************************************************************)
(* miniftp I/O core: the Connection socket state machine                   *)
(* (src/net/connection.rs) and the FtpServer handler (src/server/server.rs)*)
(* with its request queue and worker loop.                                 *)
(***************************************************************************)
EXTENDS Integers, Sequences, FiniteSets, TLC

(***************************************************************************)
(* Bounds of the model.                                                    *)
(***************************************************************************)
\* reads one read cycle may issue before the model stops following it
MaxReads == 2
\* dispatch calls followed on the stand-alone connection
MaxDispatch == 2
\* connections the listening socket hands out
MaxAccepts == 2
\* largest config.max_clients tried
MaxClients == 2
\* Notify events delivered in the small-burst runs
MaxNotify == 3
\* dispatch calls on session connections in the server runs
MaxIO == 1
\* largest worker pool tried in the worker-loop specification
MaxWorkers == 2

(***************************************************************************)
(* Readiness flags (EpollFlags) as bit sets over the five bits the code    *)
(* tests.                                                                  *)
(***************************************************************************)
EPOLLIN == 1
EPOLLPRI == 2
EPOLLOUT == 4
EPOLLERR == 8
EPOLLHUP == 16
AllFlags == 0..31

RECURSIVE BitAnd(_, _)
BitAnd(a, b) ==
    IF a = 0 \/ b = 0 THEN 0
    ELSE (IF a % 2 = 1 /\ b % 2 = 1 THEN 1 ELSE 0) + 2 * BitAnd(a \div 2, b \div 2)

is_readable(ev) == BitAnd(ev, EPOLLIN + EPOLLPRI) > 0
is_writeable(ev) == BitAnd(ev, EPOLLOUT) > 0
is_close_NoInTest(ev) == BitAnd(ev, EPOLLHUP) > 0
is_close(ev) == BitAnd(ev, EPOLLHUP) > 0 /\ ~(BitAnd(ev, EPOLLIN) > 0)
is_error(ev) == BitAnd(ev, EPOLLERR) > 0
is_hup(ev) == BitAnd(ev, EPOLLHUP) > 0

(***************************************************************************)
(* Connection                                                              *)
(***************************************************************************)
States == {"Reading", "Ready", "Writing", "Finished", "Closed"}

\* size of the scratch buffer of Connection::read
BufLen == 1024
\* the write_buf guard of Connection::read
WriteGuard == 64 * 1024

\* Byte sequences are kept in run-length form: a sequence of runs <<lo, hi>>,
\* each standing for the bytes at offsets lo..hi of the peer's stream in
\* order. Cat is concatenation; it merges a run that continues the one
\* before it, so two buffers are equal iff they hold the same bytes in the
\* same order.
NoBytes == <<>>
Cat(a, b) ==
    IF a = <<>> THEN b
    ELSE IF b = <<>> THEN a
    ELSE IF a[Len(a)][2] + 1 = b[1][1]
    THEN SubSeq(a, 1, Len(a) - 1) \o <<(<<a[Len(a)][1], b[1][2]>>)>> \o Tail(b)
    ELSE a \o b
RECURSIVE ByteLen(_)
ByteLen(b) == IF b = <<>> THEN 0 ELSE (b[1][2] - b[1][1] + 1) + ByteLen(Tail(b))
\* The n bytes a read at stream offset pos copies into buf[0..n].
StreamData(pos, n) == IF n = 0 THEN NoBytes ELSE <<(<<pos + 1, pos + n>>)>>

ConnectionNew(fd) ==
    [fd |-> fd, state |-> "Ready", write_buf |-> NoBytes, read_buf |-> NoBytes]

\* What one read(fd, &mut buf) can return.
ShortLens == {1, 200, BufLen - 1}
ReadLens == {0} \cup ShortLens \cup {BufLen}
ErrKinds == {"EINTR", "EAGAIN", "EIO"}
ReadResults ==
    [kind : {"Ok"}, n : ReadLens] \cup [kind : ErrKinds, n : {0}]

\* read_buf.extend_from_slice(&buf[0..n])
ExtendPrepends(rb, data) == Cat(data, rb)
Extend(rb, data) == Cat(rb, data)

\* The match of one loop iteration of Connection::read on read result r
\* carrying bytes data: the connection after it and whether it hit `break`.
MatchReadFatalKeepsState(c, r, data) ==
    IF r.kind = "Ok" /\ r.n = 0
    THEN [c |-> [c EXCEPT !.state = "Finished"], brk |-> FALSE]
    ELSE IF r.kind = "Ok"
    THEN [c |-> [c EXCEPT !.read_buf = Extend(c.read_buf, data),
                          !.state = IF r.n # BufLen THEN "Finished" ELSE "Reading"],
          brk |-> r.n # BufLen]
    ELSE [c |-> c, brk |-> FALSE]
MatchReadEofCloses(c, r, data) ==
    IF r.kind = "Ok" /\ r.n = 0
    THEN [c |-> [c EXCEPT !.state = "Closed"], brk |-> FALSE]
    ELSE IF r.kind = "Ok"
    THEN [c |-> [c EXCEPT !.read_buf = Extend(c.read_buf, data),
                          !.state = IF r.n # BufLen THEN "Finished" ELSE "Reading"],
          brk |-> r.n # BufLen]
    ELSE IF r.kind \in {"EINTR", "EAGAIN"}
    THEN [c |-> c, brk |-> FALSE]
    ELSE [c |-> [c EXCEPT !.state = "Closed"], brk |-> FALSE]
MatchRead(c, r, data) ==
    IF r.kind = "Ok" /\ r.n = 0
    THEN [c |-> [c EXCEPT !.state = "Finished"], brk |-> FALSE]
    ELSE IF r.kind = "Ok"
    THEN [c |-> [c EXCEPT !.read_buf = Extend(c.read_buf, data),
                          !.state = IF r.n # BufLen THEN "Finished" ELSE "Reading"],
          brk |-> r.n # BufLen]
    ELSE IF r.kind \in {"EINTR", "EAGAIN"}
    THEN [c |-> c, brk |-> FALSE]
    ELSE [c |-> [c EXCEPT !.state = "Closed"], brk |-> FALSE]

\* The write_buf guard that follows the match unless the match hit `break`.
GuardStep(m) ==
    IF ~m.brk /\ ByteLen(m.c.write_buf) >= WriteGuard
    THEN [c |-> [m.c EXCEPT !.state = "Reading"], brk |-> TRUE]
    ELSE m

\* One whole iteration of the loop of Connection::read.
ReadBody(c, r, data) == GuardStep(MatchRead(c, r, data))

\* The loop goes round again: no `break`, and the while condition holds.
ReadContinues(m) == ~m.brk /\ m.c.state # "Finished" /\ m.c.state # "Closed"

\* Connection::write is an empty stub.
ConnWrite(c) == c

\* dispatch after the read cycle: write cycle, then the error and close tests.
DispatchTailNoClose(c, ev) ==
    LET w == IF is_writeable(ev) THEN ConnWrite(c) ELSE c
    IN  IF is_error(ev) THEN [w EXCEPT !.state = "Closed"] ELSE w
DispatchTail(c, ev) ==
    LET w == IF is_writeable(ev) THEN ConnWrite(c) ELSE c
        e == IF is_error(ev) THEN [w EXCEPT !.state = "Closed"] ELSE w
    IN  IF is_close(ev) THEN [e EXCEPT !.state = "Closed"] ELSE e

(***************************************************************************)
(* State.                                                                  *)
(***************************************************************************)
VARIABLES
    \* the stand-alone connection
    conn,       \* the Connection
    cpc,        \* where dispatch stands: "idle", "read" (in the read loop), "tail"
    revents,    \* the flags of the dispatch call in progress (or of the last one)
    ret,        \* what the last dispatch call returned ("none" before the first)
    cycle,      \* the read results of the current (or last) read cycle, in order
    buf0,       \* read_buf when the current (or last) dispatch call began
    rpos,       \* bytes of the peer's stream read so far
    pos0,       \* rpos when the current (or last) dispatch call began
    ndispatch,  \* dispatch calls begun
    os_ok,      \* whether the OS call that produced the socket (connect) succeeded
    last_op,    \* the last method called on the Connection
    msg,        \* what the last get_msg since the last dispatch returned
    drained,    \* get_msg was called since the last dispatch began
    redrain,    \* the last get_msg came after another with no dispatch in between
    sock,       \* the socket as the kernel holds it: bytes pending, what follows them
    spin,       \* parity of the reads issued by the read loop
    \* FtpServer
    max_clients,  \* config.max_clients
    sessions,     \* fd -> Session (the Arc<Mutex<Session>> is named by its fd)
    conn_map,     \* cmd fd -> data fd
    conn_list,    \* the idle tracker
    queue,        \* request_queue: session references, oldest first
    pool_len,     \* worker_pool.len()
    \* the reactor thread and what surrounds the server
    reactor,      \* "wait" (in the readiness wait), "push" (inside push_back), "panic"
    pending,      \* the push the reactor is blocked in
    registered,   \* fds armed in the event loop's registration table
    shut,         \* fds shutdown(Both) was called on
    accepted,     \* connections accepted so far
    budget,       \* events the environment may still deliver, by kind
    \* the worker threads
    wpc,          \* worker -> "pop", "lock", "handle"
    wsess,        \* worker -> the session reference it popped (0: none)
    held,         \* sessions whose mutex is locked
    \* history
    len_at_accept,  \* accepted fd -> sessions.len() when it was accepted
    events,       \* fds of the Notify events handled, in order
    popped,       \* session references popped by workers, in order
    acked,        \* fds a Notify event was handled for since their last dispatch
    ticks         \* parity of the Timer events handled

apiVars == <<os_ok, last_op, msg, drained, redrain>>
sockVars == <<sock, spin>>
connVars ==
    <<conn, cpc, revents, ret, cycle, buf0, rpos, pos0, ndispatch, apiVars, sockVars>>
serverVars ==
    <<max_clients, sessions, conn_map, conn_list, queue, pool_len, reactor, pending,
      registered, shut, accepted, budget, len_at_accept, events, acked, ticks>>
workerVars == <<wpc, wsess, held, popped>>
vars == <<connVars, serverVars, workerVars>>

(***************************************************************************)
(* The stand-alone connection: one Connection driven through dispatch,     *)
(* one action per read the read cycle issues.                              *)
(***************************************************************************)
\* A socket the model does not follow: any read result may come.
AnySocket == [avail |-> 0, then |-> "any"]

\* The Connection::new part common to every way of making a Connection.
ConnFresh ==
    /\ cpc = "idle"
    /\ revents = 0
    /\ ret = "none"
    /\ cycle = <<>>
    /\ buf0 = NoBytes
    /\ rpos = 0
    /\ pos0 = 0
    /\ ndispatch = 0
    /\ msg = NoBytes
    /\ drained = FALSE
    /\ redrain = FALSE
    /\ spin = 0

\* Connection::accept
ConnInit ==
    /\ conn = ConnectionNew(1)
    /\ os_ok = TRUE
    /\ last_op = "accept"
    /\ sock = AnySocket
    /\ ConnFresh

\* dispatch(revents) up to the first read: state = Ready, then the readable test.
DispatchBegin ==
    /\ cpc = "idle"
    /\ ndispatch < MaxDispatch
    /\ \E ev \in AllFlags :
         /\ revents' = ev
         /\ cpc' = IF is_readable(ev) THEN "read" ELSE "tail"
    /\ conn' = [conn EXCEPT !.state = "Ready"]
    /\ cycle' = <<>>
    /\ buf0' = conn.read_buf
    /\ pos0' = rpos
    /\ ndispatch' = ndispatch + 1
    /\ last_op' = "dispatch"
    /\ drained' = FALSE
    /\ redrain' = FALSE
    /\ msg' = NoBytes
    /\ UNCHANGED <<ret, rpos, os_ok, sockVars, serverVars, workerVars>>

\* One iteration of the read loop on read result r: the read, its match,
\* the write_buf guard.
ReadIteration(r) ==
    /\ cpc = "read"
    /\ LET m == ReadBody(conn, r, StreamData(rpos, r.n))
       IN  /\ conn' = m.c
           /\ cpc' = IF ReadContinues(m) THEN "read" ELSE "tail"
    /\ rpos' = rpos + r.n
    /\ UNCHANGED <<revents, ret, buf0, pos0, ndispatch, apiVars, serverVars, workerVars>>

\* An iteration on a socket that may return anything.
ReadStep ==
    /\ Len(cycle) < MaxReads
    /\ \E r \in ReadResults :
         /\ ReadIteration(r)
         /\ cycle' = Append(cycle, r)
    /\ UNCHANGED sockVars

\* The socket of a connection whose peer has sent all it will send during
\* the run: avail bytes are pending, intr reads are still to be interrupted
\* by a signal, and `then` is what a read finds once the bytes are gone:
\* would-block on a connection still open, end of stream, or an error.
SockPending == {0, 200, BufLen, BufLen + 200}
SockThen == {"open", "eof", "error"}
Sockets == [avail : SockPending, then : SockThen, intr : 0..1]

Min(a, b) == IF a < b THEN a ELSE b

\* What read(fd, &mut buf) returns on a non-blocking socket sk.
SockResult(sk) ==
    IF sk.avail > 0 THEN [kind |-> "Ok", n |-> Min(sk.avail, BufLen)]
    ELSE IF sk.then = "open" THEN [kind |-> "EAGAIN", n |-> 0]
    ELSE IF sk.then = "eof" THEN [kind |-> "Ok", n |-> 0]
    ELSE [kind |-> "EIO", n |-> 0]

\* An iteration on the followed socket: the read is interrupted, or returns
\* what the socket holds. cycle keeps the first MaxReads results.
SockRead ==
    /\ \/ /\ sock.intr > 0
          /\ ReadIteration([kind |-> "EINTR", n |-> 0])
          /\ sock' = [sock EXCEPT !.intr = @ - 1]
          /\ cycle' = IF Len(cycle) < MaxReads
                       THEN Append(cycle, [kind |-> "EINTR", n |-> 0]) ELSE cycle
       \/ LET r == SockResult(sock)
          IN  /\ ReadIteration(r)
              /\ sock' = [sock EXCEPT !.avail = @ - r.n]
              /\ cycle' = IF Len(cycle) < MaxReads THEN Append(cycle, r) ELSE cycle
    /\ spin' = 1 - spin

\* The rest of dispatch and its return.
DispatchEnd ==
    /\ cpc = "tail"
    /\ conn' = DispatchTail(conn, revents)
    /\ ret' = conn'.state
    /\ cpc' = "idle"
    /\ UNCHANGED <<revents, cycle, buf0, rpos, pos0, ndispatch, apiVars, sockVars,
                   serverVars, workerVars>>

(***************************************************************************)
(* FtpServer                                                               *)
(***************************************************************************)
\* BlockingQueue::new(64)
QueueCapacityOffByOne == 64 + 1
QueueCapacity == 64
\* ThreadPool::new(0)
PoolSize == 0
\* The threads a pool built with ThreadPool::new(size) holds (pool.len()).
ThreadPoolLen(size) == size

\* BlockingQueue: push_back appends, pop_front takes the oldest entry.
PushBack(q, s) == Append(q, s)
PopFront(q) == [item |-> Head(q), rest |-> Tail(q)]

NoPending == [fd |-> 0, pops |-> 0]
NoMap == [fd \in {} |-> 0]

\* Session::new(&config, conn, event_loop, &conn_map): the session owns conn;
\* rpos counts the bytes read from its socket.
SessionNew(c) == [conn |-> c, rpos |-> 0]

\* read_buf.clear() of Connection::register_read
RegisterReadKeeps(c) == c
RegisterRead(c) == [c EXCEPT !.read_buf = NoBytes]
\* Connection::get_msg leaves read_buf empty
GetMsgPeeks(c) == c
GetMsg(c) == [c EXCEPT !.read_buf = NoBytes]

\* What the environment delivers: a few events of each kind for up to
\* MaxClients clients, or a burst of Notify events for the one client of a
\* server with max_clients = 1.
FewEvents(io) ==
    /\ max_clients \in 0..MaxClients
    /\ budget = [accept |-> MaxAccepts, notify |-> MaxNotify, io |-> io]
Burst ==
    /\ max_clients = 1
    /\ budget = [accept |-> 2, notify |-> QueueCapacity + 2, io |-> 0]

\* FtpServer::new with a pool of n threads.
ServerInit(n) ==
    /\ pool_len = n
    /\ sessions = NoMap
    /\ conn_map = NoMap
    /\ conn_list = NoMap
    /\ queue = <<>>
    /\ reactor = "wait"
    /\ pending = NoPending
    /\ registered = {}
    /\ shut = {}
    /\ accepted = 0
    /\ wpc = [w \in 1..n |-> "pop"]
    /\ wsess = [w \in 1..n |-> 0]
    /\ held = {}
    /\ len_at_accept = NoMap
    /\ events = <<>>
    /\ popped = <<>>
    /\ acked = {}
    /\ ticks = 0

\* The admission test of FtpServer::ready.
AdmitsAtCeiling(max, len) == max >= len
Admits(max, len) == max > len

\* The fds ready arms with the reactor: conn.register_read is called in the
\* admitted branch only.
ArmsBeforeTest(admit, fd) == {fd}
Arms(admit, fd) == IF admit THEN {fd} ELSE {}

\* ready(Listen): accept one connection, admit it or shut it down.
Ready ==
    /\ reactor = "wait"
    /\ budget.accept > 0
    /\ LET fd == accepted + 1
           c == ConnectionNew(fd)
           admit == Admits(max_clients, Cardinality(DOMAIN sessions))
       IN  /\ registered' = registered \cup Arms(admit, fd)
           /\ IF admit
              THEN /\ sessions' = (fd :> SessionNew(RegisterRead(c))) @@ sessions
                   /\ UNCHANGED shut
              ELSE /\ shut' = shut \cup {fd}
                   /\ UNCHANGED sessions
    /\ len_at_accept' = ((accepted + 1) :> Cardinality(DOMAIN sessions)) @@ len_at_accept
    /\ accepted' = accepted + 1
    /\ budget' = [budget EXCEPT !.accept = @ - 1]
    /\ UNCHANGED <<max_clients, conn_map, conn_list, queue, pool_len, reactor, pending,
                   events, acked, ticks, connVars, workerVars>>

\* self.request_queue.push_back(s.clone())
RequestPushFront(q, s) == <<s>> \o q
RequestPush(q, s) == PushBack(q, s)

\* The session map after notify(Notify(fd)): nothing is removed, the
\* unregistering of sessions is a TODO.
NotifyEvictsClosed(ss, fd) ==
    IF ss[fd].conn.state = "Closed" THEN [f \in DOMAIN ss \ {fd} |-> ss[f]] ELSE ss
NotifyKeeps(ss, fd) == ss

\* notify(Notify(fd)): look the session up and push a reference to it;
\* push_back blocks while the queue is full.
Notify ==
    /\ reactor = "wait"
    /\ budget.notify > 0
    /\ \E fd \in registered :
         IF fd \notin DOMAIN sessions
         THEN /\ reactor' = "panic"
              /\ UNCHANGED <<sessions, queue, pending, events, acked>>
         ELSE /\ events' = Append(events, fd)
              /\ sessions' = NotifyKeeps(sessions, fd)
              /\ IF Len(queue) < QueueCapacity
                 THEN /\ queue' = RequestPush(queue, fd)
                      /\ acked' = acked \cup {fd}
                      /\ UNCHANGED <<reactor, pending>>
                 ELSE /\ reactor' = "push"
                      /\ pending' = [fd |-> fd, pops |-> Len(popped)]
                      /\ UNCHANGED <<queue, acked>>
    /\ budget' = [budget EXCEPT !.notify = @ - 1]
    /\ UNCHANGED <<max_clients, conn_map, conn_list, pool_len, registered,
                   shut, accepted, len_at_accept, ticks, connVars, workerVars>>

\* The blocked push_back completes once the queue has room; notify returns.
PushResume ==
    /\ reactor = "push"
    /\ Len(queue) < QueueCapacity
    /\ queue' = RequestPush(queue, pending.fd)
    /\ acked' = acked \cup {pending.fd}
    /\ reactor' = "wait"
    /\ pending' = NoPending
    /\ UNCHANGED <<max_clients, sessions, conn_map, conn_list, pool_len, registered,
                   shut, accepted, budget, len_at_accept, events, ticks, connVars,
                   workerVars>>

\* notify(Timer(fd)): a log line. The timer fd fires periodically.
TimerSweeps ==
    /\ reactor = "wait"
    /\ ticks' = 1 - ticks
    /\ sessions' = NoMap
    /\ UNCHANGED <<max_clients, conn_map, conn_list, queue, pool_len, reactor,
                   pending, registered, shut, accepted, budget, len_at_accept, events,
                   acked, connVars, workerVars>>
Timer ==
    /\ reactor = "wait"
    /\ ticks' = 1 - ticks
    /\ UNCHANGED <<max_clients, sessions, conn_map, conn_list, queue, pool_len, reactor,
                   pending, registered, shut, accepted, budget, len_at_accept, events,
                   acked, connVars, workerVars>>

\* The flags and read results tried on session connections: plain data,
\* data with hangup, hangup alone, an error, write-readiness alone; end of
\* stream, a short read, a fatal error.
SessionFlags == {EPOLLIN, EPOLLIN + EPOLLHUP, EPOLLHUP, EPOLLERR, EPOLLOUT}
SessionReads ==
    {[kind |-> "Ok", n |-> 0], [kind |-> "Ok", n |-> 200], [kind |-> "EIO", n |-> 0]}

\* The reactor thread runs dispatch(ev) on the connection of session fd,
\* for a read cycle that ends with its first read.
SessionDispatch ==
    /\ reactor = "wait"
    /\ budget.io > 0
    /\ \E fd \in DOMAIN sessions, ev \in SessionFlags, r \in SessionReads :
         LET s  == sessions[fd]
             c0 == [s.conn EXCEPT !.state = "Ready"]
             m  == ReadBody(c0, r, StreamData(s.rpos, r.n))
         IN  /\ fd \notin held
             /\ is_readable(ev) => ~ReadContinues(m)
             /\ sessions' =
                  [sessions EXCEPT
                     ![fd] = IF is_readable(ev)
                             THEN [conn |-> DispatchTail(m.c, ev), rpos |-> s.rpos + r.n]
                             ELSE [conn |-> DispatchTail(c0, ev), rpos |-> s.rpos]]
             /\ acked' = acked \ {fd}
    /\ budget' = [budget EXCEPT !.io = @ - 1]
    /\ UNCHANGED <<max_clients, conn_map, conn_list, queue, pool_len, reactor, pending,
                   registered, shut, accepted, len_at_accept, events, ticks, connVars,
                   workerVars>>

(***************************************************************************)
(* The worker loop: pop_front, lock, handle_command, unlock.               *)
(***************************************************************************)
WorkerTakeNewest(q) == [item |-> q[Len(q)], rest |-> SubSeq(q, 1, Len(q) - 1)]
\* q_clone.pop_front()
WorkerTake(q) == PopFront(q)

\* let session = q_clone.pop_front(); pop_front blocks while the queue is empty.
WorkerPop(w) ==
    /\ wpc[w] = "pop"
    /\ queue # <<>>
    /\ LET t == WorkerTake(queue)
       IN  /\ queue' = t.rest
           /\ wsess' = [wsess EXCEPT ![w] = t.item]
           /\ popped' = Append(popped, t.item)
    /\ wpc' = [wpc EXCEPT ![w] = "lock"]
    /\ UNCHANGED <<max_clients, sessions, conn_map, conn_list, pool_len, reactor, pending,
                   registered, shut, accepted, budget, len_at_accept, events, acked, ticks,
                   held, connVars>>

\* session.lock() returns once no other thread holds the session's mutex.
LockGrantedAlways(s) == TRUE
LockGranted(s) == s \notin held

WorkerLock(w) ==
    /\ wpc[w] = "lock"
    /\ LockGranted(wsess[w])
    /\ held' = held \cup {wsess[w]}
    /\ wpc' = [wpc EXCEPT ![w] = "handle"]
    /\ UNCHANGED <<wsess, popped, serverVars, connVars>>

\* handle_command() runs (it takes the message with get_msg) and the guard
\* is dropped at the end of the statement.
WorkerHandle(w) ==
    /\ wpc[w] = "handle"
    /\ sessions' = [sessions EXCEPT ![wsess[w]].conn = GetMsg(@)]
    /\ held' = held \ {wsess[w]}
    /\ wpc' = [wpc EXCEPT ![w] = "pop"]
    /\ wsess' = [wsess EXCEPT ![w] = 0]
    /\ UNCHANGED <<max_clients, conn_map, conn_list, queue, pool_len, reactor, pending,
                   registered, shut, accepted, budget, len_at_accept, events, acked, ticks,
                   popped, connVars>>

(***************************************************************************)
(* The other methods of a Connection, called between two dispatches.       *)
(***************************************************************************)
\* Connection::connect: the result of the OS connect is logged, nothing else.
ConnectChecked(ok, fd) ==
    IF ok THEN ConnectionNew(fd) ELSE [ConnectionNew(fd) EXCEPT !.state = "Closed"]
Connect(ok, fd) == ConnectionNew(fd)

connected(c) == c.state # "Closed"

\* What get_msg hands back: `buf`, the copy of read_buf taken on entry.
GetMsgReturn(c) == c.read_buf

\* Connection::write_buf is an empty stub.
WriteBufQueues(c, buf) == [c EXCEPT !.write_buf = Cat(@, buf)]
WriteBuf(c, buf) == c

\* Byte strings a caller hands to write_buf.
OutData == {NoBytes, <<(<<1, 5>>)>>, <<(<<1, WriteGuard>>)>>}

ConnectInit ==
    /\ os_ok \in BOOLEAN
    /\ conn = Connect(os_ok, 1)
    /\ last_op = "connect"
    /\ sock = AnySocket
    /\ ConnFresh

\* What every call other than dispatch leaves alone, and the record of it.
ApiFrame(op) ==
    /\ cpc = "idle"
    /\ last_op' = op
    /\ UNCHANGED <<cpc, revents, ret, cycle, buf0, rpos, pos0, ndispatch, os_ok,
                   sockVars, serverVars, workerVars>>

GetMsgCall ==
    /\ ApiFrame("get_msg")
    /\ msg' = GetMsgReturn(conn)
    /\ conn' = GetMsg(conn)
    /\ redrain' = drained
    /\ drained' = TRUE

RegisterReadCall ==
    /\ ApiFrame("register_read")
    /\ conn' = RegisterRead(conn)
    /\ UNCHANGED <<msg, drained, redrain>>

WriteBufCall ==
    /\ ApiFrame("write_buf")
    /\ \E buf \in OutData : conn' = WriteBuf(conn, buf)
    /\ UNCHANGED <<msg, drained, redrain>>

WriteCall ==
    /\ ApiFrame("write")
    /\ conn' = ConnWrite(conn)
    /\ UNCHANGED <<msg, drained, redrain>>

\* Connection::read run to its end on the read results rs, the first at
\* stream offset pos: the connection after it, the results it never asked
\* for, and whether the loop would still go round for more.
RECURSIVE ReadCycle(_, _, _)
ReadCycle(c, pos, rs) ==
    IF rs = <<>>
    THEN [c |-> c, rest |-> rs, going |-> TRUE]
    ELSE LET m == ReadBody(c, rs[1], StreamData(pos, rs[1].n))
         IN  IF ReadContinues(m)
             THEN ReadCycle(m.c, pos + rs[1].n, Tail(rs))
             ELSE [c |-> m.c, rest |-> Tail(rs), going |-> FALSE]

\* Connection::dispatch as one function of the flags and the read results.
Dispatch(c, ev, pos, rs) ==
    LET c0 == [c EXCEPT !.state = "Ready"]
        r  == IF is_readable(ev) THEN ReadCycle(c0, pos, rs).c ELSE c0
    IN  DispatchTail(r, ev)

\* The read results of whole read cycles: every sequence of at most MaxReads
\* results that a read cycle consumes to the last and stops on.
CallReads ==
    {[kind |-> "Ok", n |-> 0], [kind |-> "Ok", n |-> 200],
     [kind |-> "Ok", n |-> BufLen], [kind |-> "EIO", n |-> 0]}
ReadRuns ==
    {rs \in UNION {[1..k -> CallReads] : k \in 1..MaxReads} :
        LET e == ReadCycle(ConnectionNew(1), 0, rs)
        IN  e.rest = <<>> /\ ~e.going}
RECURSIVE RunLen(_)
RunLen(rs) == IF rs = <<>> THEN 0 ELSE rs[1].n + RunLen(Tail(rs))

\* A whole dispatch call, for the callers that do not look inside it.
DispatchCall ==
    /\ cpc = "idle"
    /\ ndispatch < MaxDispatch
    /\ \E ev \in SessionFlags :
         \E rs \in IF is_readable(ev) THEN ReadRuns ELSE {<<>>} :
            /\ conn' = Dispatch(conn, ev, rpos, rs)
            /\ revents' = ev
            /\ cycle' = rs
            /\ rpos' = rpos + RunLen(rs)
    /\ ret' = conn'.state
    /\ buf0' = conn.read_buf
    /\ pos0' = rpos
    /\ ndispatch' = ndispatch + 1
    /\ last_op' = "dispatch"
    /\ msg' = NoBytes
    /\ drained' = FALSE
    /\ redrain' = FALSE
    /\ UNCHANGED <<cpc, os_ok, sockVars, serverVars, workerVars>>

(***************************************************************************)
(* Specifications.                                                         *)
(***************************************************************************)
\* The stand-alone connection.
NextConn == DispatchBegin \/ ReadStep \/ DispatchEnd \/ WriteBufCall \/ WriteCall
InitConn ==
    /\ ConnInit
    /\ ServerInit(0)
    /\ max_clients = 0
    /\ budget = [accept |-> 0, notify |-> 0, io |-> 0]
SpecConn == InitConn /\ [][NextConn]_vars

\* The stand-alone connection on a socket the model follows.
InitSock ==
    /\ conn = ConnectionNew(1)
    /\ os_ok = TRUE
    /\ last_op = "accept"
    /\ sock \in Sockets
    /\ ConnFresh
    /\ ServerInit(0)
    /\ max_clients = 0
    /\ budget = [accept |-> 0, notify |-> 0, io |-> 0]
NextSock == DispatchBegin \/ SockRead \/ DispatchEnd
SpecSock == InitSock /\ [][NextSock]_vars
\* The thread inside dispatch keeps running.
FairSpecSock == SpecSock /\ WF_vars(NextSock)

\* A Connection made by accept or by connect, and its callers' view of it:
\* whole dispatch calls with get_msg and register_read between them.
InitApi ==
    /\ ConnInit \/ ConnectInit
    /\ ServerInit(0)
    /\ max_clients = 0
    /\ budget = [accept |-> 0, notify |-> 0, io |-> 0]
NextApi == DispatchCall \/ GetMsgCall \/ RegisterReadCall
SpecApi == InitApi /\ [][NextApi]_vars

\* The server as FtpServer::new builds it.
Init ==
    /\ ConnInit
    /\ ServerInit(ThreadPoolLen(PoolSize))
    /\ (FewEvents(MaxIO) \/ Burst)
Next == Ready \/ Notify \/ Timer \/ SessionDispatch
Spec == Init /\ [][Next]_vars
\* The reactor thread handles every event that is delivered.
FairSpec == Spec /\ WF_vars(Next)

\* The accept and hand-off path with the worker loop run by a pool of
\* 1..MaxWorkers threads.
InitPool ==
    /\ ConnInit
    /\ \E n \in 1..MaxWorkers : ServerInit(n)
    /\ (FewEvents(0) \/ Burst)
NextPool ==
    \/ Ready
    \/ Notify
    \/ PushResume
    \/ \E w \in 1..pool_len : WorkerPop(w)
    \/ \E w \in 1..pool_len : WorkerLock(w)
    \/ \E w \in 1..pool_len : WorkerHandle(w)
SpecPool == InitPool /\ [][NextPool]_vars

(***************************************************************************)
(* Properties of the server.                                               *)
(***************************************************************************)
\* C1: a connection accepted while sessions.len() >= config.max_clients is
\* shut down, is not in sessions and is not registered with the reactor;
\* sessions never holds more than config.max_clients entries.
AdmissionControl ==
    /\ Cardinality(DOMAIN sessions) <= max_clients
    /\ \A fd \in DOMAIN len_at_accept :
         len_at_accept[fd] >= max_clients =>
             /\ fd \in shut
             /\ fd \notin DOMAIN sessions
             /\ fd \notin registered

\* A connection refused at a ceiling that earlier admissions reached.
RejectedAtCeilingWitness ==
    \E fd \in DOMAIN len_at_accept :
        /\ max_clients >= 1
        /\ len_at_accept[fd] = max_clients
        /\ fd \in shut
        /\ fd \notin DOMAIN sessions

\* C2: once a Notify event has been handled for a session whose connection
\* is Closed, the server has removed the session: no key of sessions refers
\* to a Closed connection.
ClosedNeverLive ==
    \A fd \in acked :
        ~(fd \in DOMAIN sessions /\ sessions[fd].conn.state = "Closed")

\* C3: every session reference pushed by a Notify event is eventually
\* popped by a worker.
HandOffLiveness ==
    \A n \in 1..MaxNotify : (Len(events) >= n) ~> (Len(popped) >= n)

\* C4: at most one worker is inside handle_command of a given session.
SessionMutualExclusion ==
    \A fd \in DOMAIN sessions :
        Cardinality({w \in 1..pool_len : wpc[w] = "handle" /\ wsess[w] = fd}) <= 1

\* One worker inside handle_command of a session, another holding a
\* reference to the same session and waiting for its mutex, and a third
\* reference to it still in the queue.
ContendedSessionWitness ==
    \E w1 \in 1..pool_len, w2 \in 1..pool_len :
        /\ wpc[w1] = "handle"
        /\ wpc[w2] = "lock"
        /\ wsess[w1] = wsess[w2]
        /\ \E i \in 1..Len(queue) : queue[i] = wsess[w1]

\* C5: the queue never holds more than 64 references; a push_back issued
\* at 64 entries completes only after a pop that came after it was issued;
\* a pop_front completes only on a queue that holds an entry.
BoundedQueue ==
    /\ [](Len(queue) <= 64)
    /\ [][(Len(events') > Len(events) /\ Len(queue) = 64)
            => (reactor' = "push" /\ queue' = queue)]_vars
    /\ [][(reactor = "push" /\ reactor' = "wait")
            => (Len(popped) > pending.pops /\ Len(queue) < 64)]_vars
    /\ [][Len(popped') > Len(popped) => Len(queue) > 0]_vars

\* The reactor blocked in push_back on a full queue, a worker about to pop.
BlockedPushWitness ==
    /\ reactor = "push"
    /\ Len(queue) = 64
    /\ \E w \in 1..pool_len : wpc[w] = "pop"

\* C6: every Notify event handled put exactly one reference to its session
\* on the queue, and the references come off the queue in the order the
\* events were handled.
HandOffOrder ==
    events = popped \o queue \o (IF reactor = "push" THEN <<pending.fd>> ELSE <<>>)

\* References to two different sessions popped, one more still queued.
TwoSessionsPoppedWitness ==
    /\ Len(popped) >= 2
    /\ popped[1] # popped[2]
    /\ queue # <<>>

(***************************************************************************)
(* Properties of the stand-alone connection.                               *)
(***************************************************************************)
\* Bit b (a power of two) is set in the flags ev.
HasBit(ev, b) == (ev \div b) % 2 = 1

Ok(n) == [kind |-> "Ok", n |-> n]
Fatal == [kind |-> "EIO", n |-> 0]

RECURSIVE SumLens(_)
SumLens(rs) == IF rs = <<>> THEN 0 ELSE rs[1].n + SumLens(Tail(rs))
\* read_buf holds what it held when dispatch began, then every byte the
\* reads of this cycle returned, in the order they were read.
KeepsArrivalOrder ==
    conn.read_buf = Cat(buf0, StreamData(pos0, SumLens(cycle)))

\* The read cycle received k >= 0 reads of 1024 bytes, then one of 0 < m < 1024.
FullThenShort ==
    /\ Len(cycle) >= 1
    /\ \A i \in 1..(Len(cycle) - 1) : cycle[i] = Ok(BufLen)
    /\ cycle[Len(cycle)].kind = "Ok"
    /\ cycle[Len(cycle)].n > 0
    /\ cycle[Len(cycle)].n < BufLen

\* C7: when dispatch was called with the error bit set, or with the hangup
\* bit set and the data-ready bit clear, it returned Closed and left the
\* connection Closed, whatever the read cycle read.
ClosedTakesPrecedence ==
    (/\ cpc = "idle"
     /\ ret # "none"
     /\ \/ HasBit(revents, EPOLLERR)
        \/ HasBit(revents, EPOLLHUP) /\ ~HasBit(revents, EPOLLIN))
    => (ret = "Closed" /\ conn.state = "Closed")

\* A hangup without data-ready, no error bit, and a read cycle (priority
\* data) that appended bytes: dispatch still returned Closed.
ClosedAfterDataWitness ==
    /\ cpc = "idle"
    /\ ret = "Closed"
    /\ revents = EPOLLHUP + EPOLLPRI
    /\ cycle = <<Ok(BufLen), Ok(200)>>
    /\ ByteLen(conn.read_buf) = ByteLen(buf0) + 1224

\* C8: a read cycle whose socket returned k reads of 1024 bytes and then one
\* read of 0 < m < 1024 bytes issued exactly those k+1 reads, left read_buf
\* holding its earlier content followed by the 1024*k + m bytes in arrival
\* order, and ended in Finished.
ReadCycleAccumulates ==
    FullThenShort =>
        /\ cpc # "read"
        /\ KeepsArrivalOrder
        /\ ByteLen(conn.read_buf)
             = ByteLen(buf0) + BufLen * (Len(cycle) - 1) + cycle[Len(cycle)].n
        /\ cpc = "tail" => conn.state = "Finished"

\* 1024 then 200 bytes on top of bytes an earlier cycle left: Finished.
AccumulatesWitness ==
    /\ cpc = "tail"
    /\ cycle = <<Ok(BufLen), Ok(200)>>
    /\ buf0 # NoBytes
    /\ ByteLen(conn.read_buf) = ByteLen(buf0) + 1224
    /\ conn.state = "Finished"

\* C9: a read that fails with an error other than EINTR and EAGAIN is the
\* last read of its cycle; the cycle ends with state Closed, read_buf keeps
\* the bytes appended before the error, and dispatch returns Closed.
FatalReadError ==
    \A i \in 1..Len(cycle) :
        cycle[i] = Fatal =>
            /\ i = Len(cycle)
            /\ cpc # "read"
            /\ conn.state = "Closed"
            /\ KeepsArrivalOrder
            /\ cpc = "idle" => ret = "Closed"

\* A full read, then a fatal error, under flags that alone would not close.
FatalReadWitness ==
    /\ cpc = "idle"
    /\ revents = EPOLLIN
    /\ cycle = <<Ok(BufLen), Fatal>>
    /\ ret = "Closed"
    /\ ByteLen(conn.read_buf) = ByteLen(buf0) + BufLen

\* C10: a read that returns 0 bytes is the last read of its cycle, appends
\* nothing to read_buf, and the cycle ends with state Finished.
EndOfStream ==
    \A i \in 1..Len(cycle) :
        cycle[i] = Ok(0) =>
            /\ i = Len(cycle)
            /\ cpc # "read"
            /\ KeepsArrivalOrder
            /\ ByteLen(conn.read_buf)
                 = ByteLen(buf0) + SumLens(SubSeq(cycle, 1, Len(cycle) - 1))
            /\ cpc = "tail" => conn.state = "Finished"

\* End of stream right after a full read: the cycle ends Finished.
EndOfStreamWitness ==
    /\ cpc = "tail"
    /\ cycle = <<Ok(BufLen), Ok(0)>>
    /\ conn.state = "Finished"
    /\ ByteLen(conn.read_buf) = ByteLen(buf0) + BufLen

\* C12: the five readiness predicates follow the truth table over the bits
\* IN, PRI, OUT, ERR, HUP: readable iff IN or PRI, writeable iff OUT, close
\* iff HUP without IN, error iff ERR, hup iff HUP.
ReadinessTruthTable ==
    /\ is_readable(revents) <=> (HasBit(revents, EPOLLIN) \/ HasBit(revents, EPOLLPRI))
    /\ is_writeable(revents) <=> HasBit(revents, EPOLLOUT)
    /\ is_close(revents) <=> (HasBit(revents, EPOLLHUP) /\ ~HasBit(revents, EPOLLIN))
    /\ is_error(revents) <=> HasBit(revents, EPOLLERR)
    /\ is_hup(revents) <=> HasBit(revents, EPOLLHUP)

\* A dispatch on hang-up together with input: hup holds, close does not.
HupWithInputWitness ==
    /\ ndispatch > 0
    /\ revents = EPOLLIN + EPOLLHUP
    /\ is_hup(revents)
    /\ ~is_close(revents)
    /\ ret = "Finished"

(***************************************************************************)
(* Properties of the other methods of a Connection.                        *)
(***************************************************************************)

\* C11: get_msg returns exactly the read_buf it found and leaves read_buf
\* empty without touching state or write_buf; a get_msg that follows another
\* with no dispatch in between returns the empty sequence.
GetMsgOneShot ==
    [][last_op' = "get_msg" =>
         /\ msg' = conn.read_buf
         /\ conn'.read_buf = NoBytes
         /\ conn'.state = conn.state
         /\ conn'.write_buf = conn.write_buf
         /\ drained => msg' = NoBytes]_vars

\* The second of two get_msg calls after a read cycle that brought bytes.
SecondGetMsgWitness ==
    /\ last_op = "get_msg"
    /\ redrain
    /\ RunLen(cycle) > 0
    /\ msg = NoBytes
    /\ conn.read_buf = NoBytes

\* C19: register_read leaves read_buf empty whatever it held, and leaves
\* state and write_buf as they were.
RegisterReadDiscards ==
    [][last_op' = "register_read" =>
         /\ conn'.read_buf = NoBytes
         /\ conn'.state = conn.state
         /\ conn'.write_buf = conn.write_buf]_vars

\* Bytes a read cycle brought, never fetched with get_msg, gone after
\* register_read.
UndrainedInputLostWitness ==
    /\ last_op = "register_read"
    /\ ~drained
    /\ RunLen(cycle) > 0
    /\ ret = "Finished"
    /\ conn.state = "Finished"
    /\ conn.read_buf = NoBytes

\* C20: what connect returns is in state Ready with both buffers empty,
\* whether the OS call succeeded or failed, so it counts as connected;
\* connected is false exactly in state Closed.
ConnectHidesFailure ==
    /\ last_op = "connect" =>
         /\ conn.state = "Ready"
         /\ conn.read_buf = NoBytes
         /\ conn.write_buf = NoBytes
         /\ connected(conn)
    /\ ~connected(conn) <=> conn.state = "Closed"

\* The Connection returned by a connect whose OS call failed.
FailedConnectWitness ==
    /\ last_op = "connect"
    /\ ~os_ok
    /\ conn.state = "Ready"
    /\ connected(conn)

\* C18: write_buf is empty in every state, so the write_buf guard of the
\* read loop never fires: a read cycle that ends leaves the state Finished
\* or Closed; dispatch returns only Ready, Finished or Closed, and Ready
\* exactly when the flags are not readable, have no error bit and do not
\* meet the close condition.
WriteBufInert ==
    /\ conn.write_buf = NoBytes
    /\ (cpc = "tail" /\ (HasBit(revents, EPOLLIN) \/ HasBit(revents, EPOLLPRI)))
         => conn.state \in {"Finished", "Closed"}
    /\ ret \in {"none", "Ready", "Finished", "Closed"}
    /\ (cpc = "idle" /\ ndispatch > 0) =>
         (ret = "Ready" <=>
            /\ ~(HasBit(revents, EPOLLIN) \/ HasBit(revents, EPOLLPRI))
            /\ ~HasBit(revents, EPOLLERR)
            /\ ~(HasBit(revents, EPOLLHUP) /\ ~HasBit(revents, EPOLLIN)))

\* write_buf called after a dispatch that returned Ready on a writeable
\* socket: the buffer is still empty.
WriteBufCalledWitness ==
    /\ last_op = "write_buf"
    /\ revents = EPOLLOUT
    /\ ret = "Ready"
    /\ conn.write_buf = NoBytes

\* C13: every dispatch call returns.
DispatchReturns == (cpc # "idle") ~> (cpc = "idle")

(***************************************************************************)
(* Further properties of the server.                                       *)
(***************************************************************************)

\* C14: every notify(Notify(fd)) call eventually returns.
NotifyReturns == (reactor = "push") ~> (reactor = "wait")

\* C15: the fds armed with the reactor are exactly the keys of sessions, and
\* the session lookup of notify never fails.
RegistrationsMatchSessions ==
    /\ registered = DOMAIN sessions
    /\ reactor # "panic"

\* One session armed and notified twice, and a later fd that was turned
\* away and never armed.
NotifiedAndRejectedWitness ==
    /\ DOMAIN sessions = {1}
    /\ shut = {2}
    /\ Len(events) >= 2
    /\ registered = {1}
    /\ reactor = "wait"

\* C16: a timer notification changes neither sessions, conn_map, conn_list
\* nor the request queue, and with them no connection's state or buffers.
TimerIsNoOp ==
    [][ticks' # ticks =>
         /\ UNCHANGED <<sessions, conn_map, conn_list, queue>>
         /\ UNCHANGED <<conn, registered, shut>>]_vars

\* A timer tick with a session holding unfetched input and a queued request.
TimerWithLiveSessionWitness ==
    /\ ticks = 1
    /\ queue # <<>>
    /\ \E fd \in DOMAIN sessions : sessions[fd].conn.read_buf # NoBytes

\* C17: no key ever leaves sessions, and once max_clients connections have
\* been admitted every later accepted connection is rejected.
Full(a) ==
    \/ len_at_accept[a] >= max_clients
    \/ a \in DOMAIN sessions /\ len_at_accept[a] + 1 >= max_clients
SessionsOnlyGrow ==
    [][/\ DOMAIN sessions \subseteq DOMAIN sessions'
       /\ \A a \in DOMAIN len_at_accept : Full(a) =>
            \A b \in DOMAIN len_at_accept' : b > a =>
               b \in shut' /\ b \notin DOMAIN sessions']_vars

\* A session whose connection is Closed still holds its slot, and a later
\* connection was turned away at the ceiling.
ClosedKeepsSlotWitness ==
    /\ max_clients > 0
    /\ Cardinality(DOMAIN sessions) = max_clients
    /\ \E a \in DOMAIN sessions :
         /\ sessions[a].conn.state = "Closed"
         /\ \E b \in shut : b > a /\ len_at_accept[b] = max_clients

=============================================================================
